---- MODULE Spec2Model ----
(***************************************************************************)
(* Model of pycisTopic/pseudobulkPeakCalling.py.                           *)
(*                                                                         *)
(* Two entry points are modelled: exportPseudoBulk (with its ray task      *)
(* exportPseudoBulk_ray) and peakCalling (with MACS_callPeak_ray and the   *)
(* MACS_callPeak class).  Strings are sequences of one-character strings,  *)
(* so that concatenation, rstrip, str() and path handling are computed.    *)
(* The file system is a function from paths to file contents.              *)
(***************************************************************************)
EXTENDS Integers, Sequences, FiniteSets, TLC

VARIABLES
    call,               \* which entry point runs: "export" or "peak"
    pc,                 \* position of the calling function
    error,              \* exception that left the calling function ("" if none)
    log_errors,         \* messages passed to log.error
    input_kind,         \* type of input_data: "cisTopicObject" or "DataFrame"
    cell_data,          \* cell metadata: index name -> value of column `variable`
    path_to_fragments,  \* [kind: "none" | "str" | "dict", keys: sample ids in dict order]
    fragment_files,     \* sample id -> records of that sample's fragments file
    bed_path,           \* argument bed_path
    bigwig_path,        \* argument bigwig_path
    fragments_df,       \* local fragments_df: [bound, rows]
    dirs,               \* folders created by os.makedirs
    fs,                 \* files on disk: path -> content
    tasks,              \* exportPseudoBulk_ray tasks, in submission order
    export_ret,         \* value returned by exportPseudoBulk
    bed_paths,          \* argument bed_paths of peakCalling: sequence of [name, path]
    outdir,             \* argument outdir of peakCalling
    macs,               \* MACS_callPeak_ray tasks, in submission order
    read_log,           \* narrowPeak reads made by load_narrow_peak: [task, path]
    peak_ret            \* value returned by peakCalling

vars == <<call, pc, error, log_errors, input_kind, cell_data, path_to_fragments,
          fragment_files, bed_path, bigwig_path, fragments_df, dirs, fs, tasks,
          export_ret, bed_paths, outdir, macs, read_log, peak_ret>>

export_inputs == <<input_kind, cell_data, path_to_fragments, fragment_files,
                   bed_path, bigwig_path>>
peak_inputs == <<bed_paths, outdir>>

(***************************************************************************)
(* Bounds                                                                  *)
(***************************************************************************)
MaxFrags == 2       \* records per fragments file
MaxPeakGroups == 2  \* entries of the bed_paths argument of peakCalling

(***************************************************************************)
(* Strings                                                                 *)
(***************************************************************************)
Digits == <<"0", "1", "2", "3", "4", "5", "6", "7", "8", "9">>

\* Characters in code-point order, for comparing strings as Python does.
CharOrder == <<"-", ".", "/">> \o Digits \o <<"A", "B", "C", "S", "T", "_">>

Code(c) == CHOOSE i \in 1..Len(CharOrder) : CharOrder[i] = c

RECURSIVE StrLess(_, _)
StrLess(a, b) ==
    IF a = <<>> THEN b # <<>>
    ELSE IF b = <<>> THEN FALSE
    ELSE IF a[1] = b[1] THEN StrLess(Tail(a), Tail(b))
    ELSE Code(a[1]) < Code(b[1])

\* x.rstrip(chars)
RECURSIVE rstrip(_, _)
rstrip(s, chars) ==
    IF s # <<>> /\ s[Len(s)] \in chars
    THEN rstrip(SubSeq(s, 1, Len(s) - 1), chars)
    ELSE s

\* x.find('-') != -1
find_dash(s) == \E i \in 1..Len(s) : s[i] = "-"

\* x.split('-')[-1]
split_last(s) ==
    LET ds == {i \in 1..Len(s) : s[i] = "-"}
    IN  IF ds = {} THEN s
        ELSE LET k == CHOOSE i \in ds : \A j \in ds : j <= i
             IN  SubSeq(s, k + 1, Len(s))

\* str(n) of a non-negative int
RECURSIVE IntToStr(_)
IntToStr(n) ==
    IF n < 10 THEN <<Digits[n + 1]>>
    ELSE IntToStr(n \div 10) \o <<Digits[(n % 10) + 1]>>

(***************************************************************************)
(* Group labels: values of the `variable` column.  A label is a Python str *)
(* or a Python int.                                                        *)
(***************************************************************************)
StrLabel(s) == [t |-> "str", n |-> 0, s |-> s]
IntLabel(n) == [t |-> "int", n |-> n, s |-> <<>>]

GroupLabels == {StrLabel(<<"B">>), StrLabel(<<"T">>), IntLabel(1)}

\* str(group)
Str(g) == IF g.t = "int" THEN IntToStr(g.n) ELSE g.s

\* group_a < group_b, defined by Python only for values of one type
LabelLess(a, b) == IF a.t = "int" THEN a.n < b.n ELSE StrLess(a.s, b.s)

Sortable(S) == \A a, b \in S : a.t = b.t

\* sorted(list(set(group_var)))
sorted(S) ==
    CHOOSE q \in [1..Cardinality(S) -> S] :
        /\ {q[i] : i \in 1..Cardinality(S)} = S
        /\ \A i, j \in 1..Cardinality(S) : i < j => LabelLess(q[i], q[j])

Range(f) == {f[x] : x \in DOMAIN f}

(***************************************************************************)
(* Paths                                                                   *)
(***************************************************************************)
Sep == "/"

\* os.path.dirname(p): the folder a file path lies in
dirname(p) ==
    LET ss == {i \in 1..Len(p) : p[i] = Sep}
    IN  IF ss = {} THEN <<>>
        ELSE LET k == CHOOSE i \in ss : \A j \in ss : j <= i
             IN  SubSeq(p, 1, k - 1)

\* the folder a folder path names, with or without a trailing separator
folder(p) == rstrip(p, {Sep})

(***************************************************************************)
(* Inputs of exportPseudoBulk                                              *)
(***************************************************************************)
Samples == {<<"S">>, <<"T">>}

RawBarcodes == {<<"A", "-", "1">>, <<"C">>}

CellNames == {<<"A", "-", "S">>, <<"C", "-", "S">>, <<"A", "-", "T">>}

CellDataChoices == UNION {[D -> GroupLabels] : D \in SUBSET CellNames}

\* a fragments file: records in file order; Start tells the records apart
FragmentFiles ==
    UNION {{[i \in 1..n |-> [Name |-> b[i], Start |-> i]] : b \in [1..n -> RawBarcodes]}
              : n \in 0..MaxFrags}

\* key orders of a path_to_fragments dictionary
SampleKeys ==
    {<<>>} \cup {<<s>> : s \in Samples}
           \cup {k \in Samples \X Samples : k[1] # k[2]}

PathToFragmentsChoices ==
    {[kind |-> "none", keys |-> <<>>], [kind |-> "str", keys |-> <<>>]}
        \cup {[kind |-> "dict", keys |-> k] : k \in SampleKeys}

BedPathChoices == {<<"out", Sep, "bed", Sep>>, <<"out", Sep, "bed">>}
BigwigPathChoices == {<<"out", Sep, "bw", Sep>>, <<"out", Sep, "bw">>}

Unbound == [bound |-> FALSE, rows |-> <<>>]
Bound(rows) == [bound |-> TRUE, rows |-> rows]

ExportFile(kind, frags) ==
    [kind |-> kind, frags |-> frags, treatment |-> <<>>, name |-> <<>>, origin |-> "export"]

\* writing file c at path p
fs_write(f, p, c) == [q \in DOMAIN f \cup {p} |-> IF q = p THEN c ELSE f[q]]

(***************************************************************************)
(* exportPseudoBulk, lines 64-102: get the fragments                       *)
(***************************************************************************)
\* isin that lets every value through
isin_all(x, values) == TRUE

\* Series.isin(values)
isin(x, values) == x \in values

\* line 77
cell_suffixes == {split_last(n) : n \in DOMAIN cell_data}

\* lines 87-91: barcode correction, decided on the first record, then suffixing
name_fragments(rows, sample_id) ==
    LET corrected ==
            IF find_dash(rows[1].Name)
            THEN [i \in 1..Len(rows) |->
                    [rows[i] EXCEPT !.Name = rstrip(rows[i].Name, {"-"} \cup Range(Digits))]]
            ELSE rows
    IN  [i \in 1..Len(rows) |->
            [corrected[i] EXCEPT !.Name = corrected[i].Name \o <<"-">> \o sample_id]]

\* line 92
filter_fragments(rows) ==
    SelectSeq(rows, LAMBDA r : isin(r.Name, DOMAIN cell_data))

Crash(e) == /\ pc' = "crashed"
            /\ error' = e

GetFragments ==
    /\ call = "export"
    /\ pc = "start"
    /\ IF input_kind = "cisTopicObject"
       THEN \* line 66: the name cisTopic_obj is not defined
            /\ Crash("NameError")
            /\ UNCHANGED <<log_errors, fragments_df>>
       ELSE LET keys == path_to_fragments.keys
                n == Len(keys)
                log1 == IF path_to_fragments.kind = "none"
                        THEN {"Please, provide path_to_fragments."} ELSE {}
                log2 == IF \E i \in 1..n : keys[i] \notin cell_suffixes
                        THEN {"Check that your cell suffixes match"} ELSE {}
            IN  IF path_to_fragments.kind # "dict"
                THEN \* lines 98-102: nothing is read for a DataFrame
                     /\ log_errors' = log_errors \cup log1
                     /\ fragments_df' = Unbound
                     /\ pc' = "groups"
                     /\ UNCHANGED error
                ELSE /\ log_errors' = log_errors \cup log2
                     /\ IF n = 0
                        THEN \* line 85: sample_id was never bound
                             /\ Crash("UnboundLocalError")
                             /\ UNCHANGED fragments_df
                        ELSE LET sample_id == keys[n]   \* the loop's last value
                                 rows == fragment_files[sample_id]
                             IN  IF rows = <<>>
                                 THEN \* line 87: no first record
                                      /\ Crash("KeyError")
                                      /\ UNCHANGED fragments_df
                                 ELSE /\ fragments_df' =
                                            Bound(filter_fragments(name_fragments(rows, sample_id)))
                                      /\ IF n > 1
                                         THEN \* line 95: fragments_df_dict holds one key
                                              Crash("IndexError")
                                         ELSE /\ pc' = "groups"
                                              /\ UNCHANGED error
    /\ UNCHANGED <<call, export_inputs, peak_inputs, dirs, fs, tasks, export_ret,
                   macs, read_log, peak_ret>>

(***************************************************************************)
(* exportPseudoBulk, lines 103-124: groups, output folders, task launch    *)
(***************************************************************************)
\* lines 178, 179
bigwig_path_group(group) == bigwig_path \o Str(group) \o <<".bw">>
bed_path_group(group) == bed_path \o Str(group) \o <<".bed.gz">>

NewTask(group) ==
    [group |-> group, st |-> "pending", group_fragments |-> <<>>,
     bigwig_path_group |-> <<>>, bed_path_group |-> <<>>]

SetGroups ==
    /\ call = "export"
    /\ pc = "groups"
    /\ LET group_var == Range(cell_data)
       IN  IF ~Sortable(group_var)
           THEN \* line 105: sorted() of str and int values
                /\ Crash("TypeError")
                /\ UNCHANGED <<dirs, tasks>>
           ELSE LET groups == sorted(group_var)
                IN  /\ dirs' = dirs \cup {bed_path, bigwig_path}
                    /\ IF groups # <<>> /\ ~fragments_df.bound
                       THEN \* line 119: fragments_df was never bound
                            /\ Crash("UnboundLocalError")
                            /\ UNCHANGED tasks
                       ELSE /\ tasks' = [i \in 1..Len(groups) |-> NewTask(groups[i])]
                            /\ pc' = "ray_get"
                            /\ UNCHANGED error
    /\ UNCHANGED <<call, log_errors, export_inputs, peak_inputs, fragments_df, fs,
                   export_ret, macs, read_log, peak_ret>>

(***************************************************************************)
(* exportPseudoBulk_ray, lines 174-188: one task per group                 *)
(***************************************************************************)
\* line 175 without the comparison with the group
select_barcodes_all(group) == DOMAIN cell_data

\* line 175
select_barcodes(group) == {b \in DOMAIN cell_data : isin(cell_data[b], {group})}

\* line 176
select_fragments(rows, barcodes) == SelectSeq(rows, LAMBDA r : isin(r.Name, barcodes))

TaskSelect(i) ==
    /\ call = "export"
    /\ i \in DOMAIN tasks
    /\ tasks[i].st = "pending"
    /\ tasks' = [tasks EXCEPT ![i] =
                    [@ EXCEPT !.st = "bigwig",
                              !.group_fragments =
                                  select_fragments(fragments_df.rows,
                                                   select_barcodes(tasks[i].group)),
                              !.bigwig_path_group = bigwig_path_group(tasks[i].group),
                              !.bed_path_group = bed_path_group(tasks[i].group)]]
    /\ UNCHANGED <<call, pc, error, log_errors, export_inputs, peak_inputs, fragments_df,
                   dirs, fs, export_ret, macs, read_log, peak_ret>>

\* lines 180-184: group_pr.to_bigwig
TaskToBigwig(i) ==
    /\ call = "export"
    /\ i \in DOMAIN tasks
    /\ tasks[i].st = "bigwig"
    /\ fs' = fs_write(fs, tasks[i].bigwig_path_group, ExportFile("bw", tasks[i].group_fragments))
    /\ tasks' = [tasks EXCEPT ![i].st = "bed"]
    /\ UNCHANGED <<call, pc, error, log_errors, export_inputs, peak_inputs, fragments_df,
                   dirs, export_ret, macs, read_log, peak_ret>>

\* lines 185-188: group_pr.to_bed, then the task returns
TaskToBed(i) ==
    /\ call = "export"
    /\ i \in DOMAIN tasks
    /\ tasks[i].st = "bed"
    /\ fs' = fs_write(fs, tasks[i].bed_path_group, ExportFile("bed", tasks[i].group_fragments))
    /\ tasks' = [tasks EXCEPT ![i].st = "done"]
    /\ UNCHANGED <<call, pc, error, log_errors, export_inputs, peak_inputs, fragments_df,
                   dirs, export_ret, macs, read_log, peak_ret>>

\* lines 177-186: a pyranges call raises (to_bigwig of line 184 is given path twice)
TaskRaise(i) ==
    /\ call = "export"
    /\ i \in DOMAIN tasks
    /\ tasks[i].st \in {"bigwig", "bed"}
    /\ tasks' = [tasks EXCEPT ![i].st = "failed"]
    /\ UNCHANGED <<call, pc, error, log_errors, export_inputs, peak_inputs, fragments_df,
                   dirs, fs, export_ret, macs, read_log, peak_ret>>

\* line 188: {group: [bigwig_path_group, bed_path_group]}
task_return(t) == [key |-> t.group, val |-> <<t.bigwig_path_group, t.bed_path_group>>]

\* lines 126, 127: {list(paths[x].keys())[0]: paths[x][...][k] for x in range(len(paths))}
paths_dict(paths, k) ==
    [g \in {paths[x].key : x \in DOMAIN paths} |->
        LET x == CHOOSE y \in DOMAIN paths :
                    /\ paths[y].key = g
                    /\ \A z \in DOMAIN paths : paths[z].key = g => z <= y
        IN  paths[x].val[k]]

\* line 127 with the index of line 126
bed_paths_of_first(paths) == paths_dict(paths, 1)

bw_paths_of(paths) == paths_dict(paths, 1)
bed_paths_of(paths) == paths_dict(paths, 2)

\* lines 117-128: ray.get returns the task results in submission order
ExportReturn ==
    /\ call = "export"
    /\ pc = "ray_get"
    /\ \A i \in DOMAIN tasks : tasks[i].st = "done"
    /\ LET paths == [x \in DOMAIN tasks |-> task_return(tasks[x])]
       IN  export_ret' = [bw_paths |-> bw_paths_of(paths), bed_paths |-> bed_paths_of(paths)]
    /\ pc' = "done"
    /\ UNCHANGED <<call, error, log_errors, export_inputs, peak_inputs, fragments_df,
                   dirs, fs, tasks, macs, read_log, peak_ret>>

\* line 117: ray.get raises the exception of a failed task
ExportRaise ==
    /\ call = "export"
    /\ pc = "ray_get"
    /\ \E i \in DOMAIN tasks : tasks[i].st = "failed"
    /\ Crash("RayTaskError")
    /\ UNCHANGED <<call, log_errors, export_inputs, peak_inputs, fragments_df,
                   dirs, fs, tasks, export_ret, macs, read_log, peak_ret>>

(***************************************************************************)
(* Inputs of peakCalling                                                   *)
(***************************************************************************)
TreatmentChoices == {<<"out", Sep, "bed", Sep, "x", ".bed.gz">>,
                     <<"out", Sep, "bed", Sep, "y", ".bed.gz">>}

OutdirChoices == {<<"out", Sep, "peaks", Sep>>, <<"out", Sep, "peaks">>}

\* a bed_paths dictionary in key order: keys are distinct
BedPathsChoices ==
    UNION {{d \in [1..n -> [name : GroupLabels, path : TreatmentChoices]] :
                \A i, j \in 1..n : i # j => d[i].name # d[j].name}
              : n \in 0..MaxPeakGroups}

ExitCodes == {0, 1}

NoPeaks == [kind |-> "unset", frags |-> <<>>, treatment |-> <<>>, name |-> <<>>,
            origin |-> "unset"]
StaleFile == [kind |-> "narrowPeak", frags |-> <<>>, treatment |-> <<>>, name |-> <<>>,
              origin |-> "stale"]
\* the narrowPeak table a peak-caller run writes for --treatment t --name n
MacsFile(t, n) == [kind |-> "narrowPeak", frags |-> <<>>, treatment |-> t, name |-> n,
                   origin |-> "macs"]

(***************************************************************************)
(* MACS_callPeak, lines 335-390                                            *)
(***************************************************************************)
\* lines 369-375: the fields of the command line that name the run's files
macs_cmd(t) == [treatment |-> t.treatment, name |-> Str(t.name), outdir |-> t.outdir]

\* The file the peak caller writes for --outdir o --name n: o/n_peaks.narrowPeak,
\* the folder and the file name joined as os.path.join joins them.
macs_output_file(o, n) ==
    (IF o # <<>> /\ o[Len(o)] = Sep THEN o ELSE o \o <<Sep>>) \o n \o <<"_peaks.narrowPeak">>

\* line 387: self.outdir + self.name + '_peaks.narrowPeak'
narrow_peak_file(o, n) == o \o n \o <<"_peaks.narrowPeak">>

NewMacs(e) ==
    [treatment |-> e.path, name |-> e.name, outdir |-> outdir, st |-> "pending",
     exited |-> FALSE, returncode |-> 0, narrow_peak |-> NoPeaks, raised |-> ""]

\* lines 234-244: one MACS_callPeak_ray task per key of bed_paths
PeakLaunch ==
    /\ call = "peak"
    /\ pc = "start"
    /\ macs' = [i \in DOMAIN bed_paths |-> NewMacs(bed_paths[i])]
    /\ pc' = "ray_get"
    /\ UNCHANGED <<call, error, log_errors, export_inputs, peak_inputs, fragments_df,
                   dirs, fs, tasks, export_ret, read_log, peak_ret>>

\* lines 302, 346-376: the object is built and the command line formatted
MacsCallpeak(i) ==
    /\ call = "peak"
    /\ i \in DOMAIN macs
    /\ macs[i].st = "pending"
    /\ IF macs[i].name.t # "str"
       THEN \* line 376: "Calling peaks for " + self.name
            macs' = [macs EXCEPT ![i].st = "failed", ![i].raised = "TypeError"]
       ELSE macs' = [macs EXCEPT ![i].st = "running"]
    /\ UNCHANGED <<call, pc, error, log_errors, export_inputs, peak_inputs, fragments_df,
                   dirs, fs, tasks, export_ret, read_log, peak_ret>>

\* lines 377-380 with the exit status ignored
MacsExit_unchecked(i) ==
    /\ call = "peak"
    /\ i \in DOMAIN macs
    /\ macs[i].st = "running"
    /\ \E code \in ExitCodes :
          /\ macs' = [macs EXCEPT ![i].st = "exited", ![i].exited = TRUE,
                                  ![i].returncode = code]
          /\ IF code = 0
             THEN LET cmd == macs_cmd(macs[i])
                  IN  fs' = fs_write(fs, macs_output_file(cmd.outdir, cmd.name),
                                     MacsFile(cmd.treatment, cmd.name))
             ELSE UNCHANGED fs
    /\ UNCHANGED <<call, pc, error, log_errors, export_inputs, peak_inputs, fragments_df,
                   dirs, tasks, export_ret, read_log, peak_ret>>

\* lines 377-380: subprocess.check_output returns, or raises on a non-zero status
MacsExit(i) ==
    /\ call = "peak"
    /\ i \in DOMAIN macs
    /\ macs[i].st = "running"
    /\ \E code \in ExitCodes :
          IF code = 0
          THEN LET cmd == macs_cmd(macs[i])
               IN  /\ fs' = fs_write(fs, macs_output_file(cmd.outdir, cmd.name),
                                     MacsFile(cmd.treatment, cmd.name))
                   /\ macs' = [macs EXCEPT ![i].st = "exited", ![i].exited = TRUE,
                                           ![i].returncode = code]
          ELSE /\ macs' = [macs EXCEPT ![i].st = "failed", ![i].exited = TRUE,
                                       ![i].returncode = code,
                                       ![i].raised = "RuntimeError"]
               /\ UNCHANGED fs
    /\ UNCHANGED <<call, pc, error, log_errors, export_inputs, peak_inputs, fragments_df,
                   dirs, tasks, export_ret, read_log, peak_ret>>

\* lines 381, 383-390: self.narrow_peak = self.load_narrow_peak()
MacsLoad(i) ==
    /\ call = "peak"
    /\ i \in DOMAIN macs
    /\ macs[i].st = "exited"
    /\ LET path == narrow_peak_file(macs[i].outdir, macs[i].name.s)
       IN  /\ read_log' = read_log \cup {[task |-> i, path |-> path]}
           /\ IF path \in DOMAIN fs
              THEN macs' = [macs EXCEPT ![i].st = "done", ![i].narrow_peak = fs[path]]
              ELSE macs' = [macs EXCEPT ![i].st = "failed",
                                        ![i].raised = "FileNotFoundError"]
    /\ UNCHANGED <<call, pc, error, log_errors, export_inputs, peak_inputs, fragments_df,
                   dirs, fs, tasks, export_ret, peak_ret>>

\* line 246: {list(bed_paths.keys())[i]: narrow_peaks[i].narrow_peak for i in range(...)}
narrow_peaks_dict(keys, narrow_peaks) ==
    [g \in {keys[i] : i \in DOMAIN narrow_peaks} |->
        LET i == CHOOSE j \in DOMAIN narrow_peaks :
                    /\ keys[j] = g
                    /\ \A k \in DOMAIN narrow_peaks : keys[k] = g => k <= j
        IN  narrow_peaks[i].narrow_peak]

\* lines 235-247: ray.get returns the task results in submission order
PeakReturn ==
    /\ call = "peak"
    /\ pc = "ray_get"
    /\ \A i \in DOMAIN macs : macs[i].st = "done"
    /\ peak_ret' = narrow_peaks_dict([i \in DOMAIN bed_paths |-> bed_paths[i].name], macs)
    /\ pc' = "done"
    /\ UNCHANGED <<call, error, log_errors, export_inputs, peak_inputs, fragments_df,
                   dirs, fs, tasks, export_ret, macs, read_log>>

\* line 235: ray.get raises the exception of a failed task
PeakRaise ==
    /\ call = "peak"
    /\ pc = "ray_get"
    /\ \E i \in DOMAIN macs : macs[i].st = "failed"
    /\ Crash("RayTaskError")
    /\ UNCHANGED <<call, log_errors, export_inputs, peak_inputs, fragments_df,
                   dirs, fs, tasks, export_ret, macs, read_log, peak_ret>>

(***************************************************************************)
(* Initial states and the next-state relation                              *)
(***************************************************************************)
InitLocals ==
    /\ pc = "start"
    /\ error = ""
    /\ log_errors = {}
    /\ fragments_df = Unbound
    /\ dirs = {}
    /\ tasks = <<>>
    /\ export_ret = [bw_paths |-> <<>>, bed_paths |-> <<>>]
    /\ macs = <<>>
    /\ read_log = {}
    /\ peak_ret = <<>>

InitExport ==
    /\ call = "export"
    /\ input_kind \in {"cisTopicObject", "DataFrame"}
    /\ cell_data \in CellDataChoices
    /\ path_to_fragments \in PathToFragmentsChoices
    /\ fragment_files \in [Samples -> FragmentFiles]
    /\ \A s \in Samples : s \notin Range(path_to_fragments.keys) => fragment_files[s] = <<>>
    /\ bed_path \in BedPathChoices
    /\ bigwig_path \in BigwigPathChoices
    /\ fs = <<>>
    /\ bed_paths = <<>>
    /\ outdir = <<>>

\* peakCalling starts with any files the caller's disk already holds at the paths
\* it will read
InitPeak ==
    /\ call = "peak"
    /\ bed_paths \in BedPathsChoices
    /\ outdir \in OutdirChoices
    /\ \E P \in SUBSET {narrow_peak_file(outdir, Str(bed_paths[i].name)) : i \in DOMAIN bed_paths} :
          fs = [p \in P |-> StaleFile]
    /\ input_kind = "DataFrame"
    /\ cell_data = <<>>
    /\ path_to_fragments = [kind |-> "none", keys |-> <<>>]
    /\ fragment_files = [s \in Samples |-> <<>>]
    /\ bed_path = <<>>
    /\ bigwig_path = <<>>

Init == InitLocals /\ (InitExport \/ InitPeak)

Next ==
    \/ GetFragments
    \/ SetGroups
    \/ \E i \in DOMAIN tasks : TaskSelect(i)
    \/ \E i \in DOMAIN tasks : TaskToBigwig(i)
    \/ \E i \in DOMAIN tasks : TaskToBed(i)
    \/ \E i \in DOMAIN tasks : TaskRaise(i)
    \/ ExportReturn
    \/ ExportRaise
    \/ PeakLaunch
    \/ \E i \in DOMAIN macs : MacsCallpeak(i)
    \/ \E i \in DOMAIN macs : MacsExit(i)
    \/ \E i \in DOMAIN macs : MacsLoad(i)
    \/ PeakReturn
    \/ PeakRaise

Spec == Init /\ [][Next]_vars

(***************************************************************************)
(* Properties                                                              *)
(***************************************************************************)
ExportDone == call = "export" /\ pc = "done"
PeakDone == call = "peak" /\ pc = "done"

\* the sample whose file exportPseudoBulk read
ReadSample == path_to_fragments.keys[Len(path_to_fragments.keys)]

\* the fragments of a sample's file, named, that the allow-list retains
Retained(sample) ==
    {r \in Range(name_fragments(fragment_files[sample], sample)) : r.Name \in DOMAIN cell_data}

Written(p) == IF p \in DOMAIN fs THEN Range(fs[p].frags) ELSE {}

\* C1: when exportPseudoBulk returns, both returned mappings have exactly the
\* distinct values of the `variable` column as keys, the bigwig mapping holds
\* bigwig_path + str(g) + '.bw' and the bed mapping bed_path + str(g) + '.bed.gz'
\* for every group g, and both files of every group were written.
C1_ExportMappings ==
    ExportDone =>
        /\ DOMAIN export_ret.bw_paths = Range(cell_data)
        /\ DOMAIN export_ret.bed_paths = Range(cell_data)
        /\ \A g \in Range(cell_data) :
              /\ export_ret.bw_paths[g] = bigwig_path \o Str(g) \o <<".bw">>
              /\ export_ret.bed_paths[g] = bed_path \o Str(g) \o <<".bed.gz">>
              /\ export_ret.bw_paths[g] \in DOMAIN fs
              /\ fs[export_ret.bw_paths[g]].kind = "bw"
              /\ export_ret.bed_paths[g] \in DOMAIN fs
              /\ fs[export_ret.bed_paths[g]].kind = "bed"

C1_Witness ==
    /\ ExportDone
    /\ Cardinality(Range(cell_data)) >= 2
    /\ \E g \in Range(cell_data) : g.t = "str"

\* C2: when peakCalling returns, the returned mapping has exactly the keys of
\* bed_paths, and the value under every group label g is the narrow-peak table
\* written by the peak-caller run with --treatment bed_paths[g] and --name g.
C2_PeakMapping ==
    PeakDone =>
        /\ DOMAIN peak_ret = {bed_paths[i].name : i \in DOMAIN bed_paths}
        /\ \A i \in DOMAIN bed_paths :
              peak_ret[bed_paths[i].name] = MacsFile(bed_paths[i].path, Str(bed_paths[i].name))

\* The part of C2 that ray.get and line 246 decide: under every order of the
\* tasks, the value under the i-th key is the narrow_peak attribute of the task
\* launched with the i-th key and its path.
PeakTaskOrder ==
    PeakDone =>
        /\ DOMAIN peak_ret = {bed_paths[i].name : i \in DOMAIN bed_paths}
        /\ \A i \in DOMAIN bed_paths :
              /\ macs[i].name = bed_paths[i].name
              /\ macs[i].treatment = bed_paths[i].path
              /\ peak_ret[bed_paths[i].name] = macs[i].narrow_peak

\* C3: a task whose subprocess exited with a non-zero status raised RuntimeError,
\* never read its narrowPeak file and never set narrow_peak; every narrowPeak
\* read was made by a task whose subprocess had exited with status zero; and
\* once any subprocess has failed peakCalling returns no mapping.
C3_ExitStatus ==
    call = "peak" =>
        /\ \A i \in DOMAIN macs :
              (macs[i].exited /\ macs[i].returncode # 0) =>
                  /\ macs[i].st = "failed"
                  /\ macs[i].raised = "RuntimeError"
                  /\ macs[i].narrow_peak = NoPeaks
                  /\ \A r \in read_log : r.task # i
        /\ \A r \in read_log : macs[r.task].exited /\ macs[r.task].returncode = 0
        /\ (\E i \in DOMAIN macs : macs[i].exited /\ macs[i].returncode # 0) =>
              (pc # "done" /\ peak_ret = <<>>)

C3_Witness ==
    /\ call = "peak"
    /\ pc = "crashed"
    /\ \E i, j \in DOMAIN macs :
          /\ macs[i].exited /\ macs[i].returncode # 0
          /\ macs[j].st = "done"
          /\ \E r \in read_log : r.task = j

\* C4: every fragment record in any file exportPseudoBulk has written (fragments
\* file or coverage track) has a barcode name that is in the index of the cell
\* metadata.
C4_AllowList ==
    call = "export" =>
        \A p \in DOMAIN fs : \A r \in Range(fs[p].frags) : r.Name \in DOMAIN cell_data

C4_Witness ==
    /\ call = "export"
    /\ \E p \in DOMAIN fs : fs[p].frags # <<>>
    /\ Len(fragments_df.rows) < Len(fragment_files[ReadSample])

\* C5: when exportPseudoBulk returns, a retained fragment with barcode b is in
\* the fragments file and in the coverage track of group g exactly when the cell
\* metadata gives b the value g, and the group outputs hold nothing else: they
\* are pairwise disjoint and their union is the retained fragment set.
C5_Partition ==
    (ExportDone /\ fragments_df.bound) =>
        LET kept == Retained(ReadSample)
            bed(g) == Written(export_ret.bed_paths[g])
            bw(g) == Written(export_ret.bw_paths[g])
            G == Range(cell_data)
        IN  /\ \A g \in G : \A r \in kept :
                  /\ r \in bed(g) <=> cell_data[r.Name] = g
                  /\ r \in bw(g) <=> cell_data[r.Name] = g
            /\ \A g, h \in G : g # h => bed(g) \cap bed(h) = {} /\ bw(g) \cap bw(h) = {}
            /\ UNION {bed(g) : g \in G} = kept
            /\ UNION {bw(g) : g \in G} = kept

C5_Witness ==
    /\ ExportDone
    /\ fragments_df.bound
    /\ \E g, h \in Range(cell_data) :
          /\ g # h
          /\ Written(export_ret.bed_paths[g]) # {}
          /\ Written(export_ret.bed_paths[h]) # {}

\* C6: with a path_to_fragments dictionary of several samples (non-empty files,
\* group values of one type, no task failure), exportPseudoBulk completes and
\* every fragment of every listed sample whose suffixed barcode is in the cell
\* metadata is in the fragments file of its group.
C6_AllSamplesMerged ==
    ( /\ call = "export"
      /\ input_kind = "DataFrame"
      /\ path_to_fragments.kind = "dict"
      /\ Len(path_to_fragments.keys) > 1
      /\ \A s \in Range(path_to_fragments.keys) : fragment_files[s] # <<>>
      /\ Sortable(Range(cell_data))
      /\ \A i \in DOMAIN tasks : tasks[i].st # "failed"
      /\ pc \in {"done", "crashed"} )
    =>  /\ pc = "done"
        /\ \A s \in Range(path_to_fragments.keys) : \A r \in Retained(s) :
              r \in Written(export_ret.bed_paths[cell_data[r.Name]])

\* C7: with a cisTopicObject as input_data (group values of one type, no task
\* failure), exportPseudoBulk completes the export for every group of the
\* object's cell data.
C7_CisTopicObject ==
    ( /\ call = "export"
      /\ input_kind = "cisTopicObject"
      /\ Sortable(Range(cell_data))
      /\ \A i \in DOMAIN tasks : tasks[i].st # "failed"
      /\ pc \in {"done", "crashed"} )
    =>  /\ pc = "done"
        /\ DOMAIN export_ret.bed_paths = Range(cell_data)
        /\ DOMAIN export_ret.bw_paths = Range(cell_data)

\* C8: every group's fragments file lies in the folder bed_path and its bigwig in
\* the folder bigwig_path, the folders exportPseudoBulk checks or creates, with or
\* without a trailing separator; and every narrowPeak file load_narrow_peak reads
\* is the file the peak caller writes for --outdir outdir and --name of the group.
C8_OutputFolders ==
    /\ ExportDone =>
          \A g \in Range(cell_data) :
              /\ dirname(export_ret.bed_paths[g]) = folder(bed_path)
              /\ dirname(export_ret.bw_paths[g]) = folder(bigwig_path)
    /\ call = "peak" =>
          \A r \in read_log :
              r.path = macs_output_file(outdir, Str(macs[r.task].name))

====
